---- MODULE Spec2Model ----
(***************************************************************************)
(* OKProxy (src/main.go): two HTTP handlers that forward a request to the  *)
(* target stored in reverseProxy.URL.  One OKProxy instance serves several *)
(* requests at once, each on its own goroutine; reverseProxy.URL is the    *)
(* only memory they share and it is accessed without synchronisation.      *)
(*                                                                         *)
(* Strings are tuples of one-character strings.  A Go string variable is   *)
(* two machine words (data pointer, length); the shared URL is modelled as *)
(* those two words because an unsynchronised store writes them one at a    *)
(* time.  A request body is a tuple of JSON tokens behind a reader offset. *)
(***************************************************************************)
EXTENDS Naturals, Sequences, FiniteSets

\* Number of requests the instance serves at the same time.
MaxInFlight == 2

Requests == 1..MaxInFlight

VARIABLES
    rpURL,   \* reverseProxy.URL: [data |-> buffer, len |-> length word]
    req      \* req[i]: the request goroutine i is serving, with its position

vars == <<rpURL, req>>

-----------------------------------------------------------------------------
(* Strings                                                                 *)

Str0 == <<>>

Letters == {"s", "t", "a", "b", "f", "c", "e", "x", "p"}

SchemeMarks == {"0", "+", "-", "."}

CtlBytes == {"\n"}

HasPrefix(s, prefix) ==
    /\ Len(s) >= Len(prefix)
    /\ SubSeq(s, 1, Len(prefix)) = prefix

\* A TrimPrefix that goes on removing the prefix while s starts with it.
TrimPrefixAll(s, prefix) ==
    LET RECURSIVE strip(_)
        strip(t) == IF prefix # <<>> /\ HasPrefix(t, prefix)
                    THEN strip(SubSeq(t, Len(prefix) + 1, Len(t)))
                    ELSE t
    IN strip(s)

\* strings.TrimPrefix: s without the leading prefix, once; s itself otherwise.
TrimPrefix(s, prefix) ==
    IF HasPrefix(s, prefix) THEN SubSeq(s, Len(prefix) + 1, Len(s)) ELSE s

\* Index of the first c in s, 0 when there is none.
RECURSIVE IndexFrom(_, _, _)
IndexFrom(s, c, i) ==
    IF i > Len(s) THEN 0
    ELSE IF s[i] = c THEN i
    ELSE IndexFrom(s, c, i + 1)

Index(s, c) == IndexFrom(s, c, 1)

Contains(s, c) == Index(s, c) # 0

\* The part of s before the first c (all of s when there is none).
CutBefore(s, c) == IF Contains(s, c) THEN SubSeq(s, 1, Index(s, c) - 1) ELSE s

Repeat(c, n) == [k \in 1..n |-> c]

-----------------------------------------------------------------------------
(* Targets: the strings stored in reverseProxy.URL                         *)

TargetA == <<"s", ":", "/", "/", "a">>
TargetB == <<"t", ":", "/", "/", "b">>
\* A control character inside the scheme, as in the repository's own test.
TargetBad == <<"s", "\n", ":", "/", "a">>

Targets == {Str0, TargetA, TargetB, TargetBad}

\* What the bytes past the end of a buffer may hold when a reader pairs one
\* string's data word with a longer string's length word.
GarbageBytes == {"~", "\n"}

\* The two words of a string variable holding s.
StringOf(s) == [data |-> s, len |-> Len(s)]

\* reverseProxy.GetProxyURL: the strings a load of the two words can yield.
GetProxyURL(w) ==
    IF w.len <= Len(w.data)
    THEN {SubSeq(w.data, 1, w.len)}
    ELSE {w.data \o Repeat(g, w.len - Len(w.data)) : g \in GarbageBytes}

-----------------------------------------------------------------------------
(* net/url.Parse, as far as the forwarder depends on it                    *)

NoScheme(s) == [err |-> FALSE, scheme |-> Str0, rest |-> s]

RECURSIVE getSchemeFrom(_, _)
getSchemeFrom(s, i) ==
    IF i > Len(s) THEN NoScheme(s)
    ELSE IF s[i] \in Letters THEN getSchemeFrom(s, i + 1)
    ELSE IF s[i] \in SchemeMarks
         THEN IF i = 1 THEN NoScheme(s) ELSE getSchemeFrom(s, i + 1)
    ELSE IF s[i] = ":"
         THEN IF i = 1
              THEN [err |-> TRUE, scheme |-> Str0, rest |-> Str0]
              ELSE [err |-> FALSE, scheme |-> SubSeq(s, 1, i - 1),
                    rest |-> SubSeq(s, i + 1, Len(s))]
    ELSE NoScheme(s)

ParseError == [err |-> TRUE, Scheme |-> Str0, Host |-> Str0]

urlParse(raw) ==
    IF \E i \in 1..Len(raw) : raw[i] \in CtlBytes THEN ParseError
    ELSE LET g == getSchemeFrom(raw, 1) IN
         IF g.err THEN ParseError
         ELSE IF ~HasPrefix(g.rest, <<"/">>)
              THEN IF g.scheme # Str0
                   THEN [err |-> FALSE, Scheme |-> g.scheme, Host |-> Str0]
                   ELSE IF Contains(CutBefore(g.rest, "/"), ":")
                        THEN ParseError
                        ELSE [err |-> FALSE, Scheme |-> Str0, Host |-> Str0]
              ELSE IF HasPrefix(g.rest, <<"/", "/">>)
                      /\ (g.scheme # Str0 \/ ~HasPrefix(g.rest, <<"/", "/", "/">>))
                   THEN [err |-> FALSE, Scheme |-> g.scheme,
                         Host |-> CutBefore(SubSeq(g.rest, 3, Len(g.rest)), "/")]
                   ELSE [err |-> FALSE, Scheme |-> g.scheme, Host |-> Str0]

-----------------------------------------------------------------------------
(* encoding/json.Unmarshal into *reverseProxy, over a tokenised body       *)

LBrace == [t |-> "{", v |-> Str0]
RBrace == [t |-> "}", v |-> Str0]
Colon == [t |-> ":", v |-> Str0]
Comma == [t |-> ",", v |-> Str0]
NumTok == [t |-> "num", v |-> Str0]
StrTok(s) == [t |-> "str", v |-> s]

\* The struct tag of reverseProxy.URL: json:"proxyURL" (written "p" here).
URLField == <<"p">>

\* The scanner state after one token, "bad" on a syntax error.  Values are
\* strings and numbers; nested values do not occur in the bodies used.
scanStep(state, tok) ==
    CASE state = "top" ->
            IF tok.t = "{" THEN "keyOrEnd"
            ELSE IF tok.t \in {"str", "num"} THEN "end" ELSE "bad"
      [] state = "keyOrEnd" ->
            IF tok.t = "}" THEN "end"
            ELSE IF tok.t = "str" THEN "colon" ELSE "bad"
      [] state = "key" -> IF tok.t = "str" THEN "colon" ELSE "bad"
      [] state = "colon" -> IF tok.t = ":" THEN "value" ELSE "bad"
      [] state = "value" -> IF tok.t \in {"str", "num"} THEN "commaOrEnd" ELSE "bad"
      [] state = "commaOrEnd" ->
            IF tok.t = "," THEN "key"
            ELSE IF tok.t = "}" THEN "end" ELSE "bad"
      [] OTHER -> "bad"

RECURSIVE scanFrom(_, _, _)
scanFrom(toks, i, state) ==
    IF i > Len(toks) THEN state
    ELSE scanFrom(toks, i + 1, scanStep(state, toks[i]))

\* json.checkValid: the whole input is scanned before anything is decoded.
checkValid(toks) == scanFrom(toks, 1, "top") = "end"

\* The members of a valid object, in order: token 2 is the first key and
\* the members are four tokens apart (key, colon, value, separator).
Members(toks) ==
    [k \in 1..((Len(toks) - 1) \div 4) |->
        [key |-> toks[4 * k - 2].v, val |-> toks[4 * k]]]

RECURSIVE storesOf(_, _)
storesOf(ms, i) ==
    IF i > Len(ms) THEN <<>>
    ELSE IF ms[i].key = URLField /\ ms[i].val.t = "str"
         THEN <<ms[i].val.v>> \o storesOf(ms, i + 1)
         ELSE storesOf(ms, i + 1)

\* json.Unmarshal(body, rp): err is "" for nil.  A syntax error stores
\* nothing; a field of the wrong type is skipped and reported at the end;
\* a field that is absent leaves rp.URL as it was.
jsonUnmarshal(toks) ==
    IF ~checkValid(toks) THEN [err |-> "json: syntax", stores |-> <<>>]
    ELSE IF toks[1].t # "{" THEN [err |-> "json: type", stores |-> <<>>]
    ELSE LET ms == Members(toks) IN
         [err |-> IF \E k \in 1..Len(ms) :
                        ms[k].key = URLField /\ ms[k].val.t # "str"
                  THEN "json: type" ELSE "",
          stores |-> storesOf(ms, 1)]

-----------------------------------------------------------------------------
(* http.Request                                                            *)

HeaderKeys == {"Host", "X-Forwarded-Host"}

\* http.Header.Get: the first value of the key, "" when the key is absent.
HeaderGet(h, k) == IF h[k] = <<>> THEN Str0 ELSE h[k][1]

\* http.Header.Set: the key holds exactly this value.
HeaderSet(h, k, v) == [h EXCEPT ![k] = <<v>>]

\* ioutil.ReadAll(r.Body): what is left of the reader, which is consumed.
ReadAll(body) ==
    [err |-> body.fail,
     bytes |-> SubSeq(body.data, body.off + 1, Len(body.data)),
     body |-> [body EXCEPT !.off = Len(body.data)]]

\* ioutil.NopCloser(bytes.NewBuffer(b)): a fresh reader at the start of b.
NewBuffer(b) == [data |-> b, off |-> 0, fail |-> FALSE]

ErrPathUnset == "ProxyURL needs to be set for PathRequestProxyHandler"
ErrBodyUnset == "ProxyURL needs to be set in request body at proxyURL field"
ErrRead == "read"
ErrParse == "url: parse"

ErrorCall(e) == [fn |-> "ServerErrorHandler", err |-> e]
ForwarderCall == [fn |-> "serveReverseProxy", err |-> ""]
PrimitiveCall == [fn |-> "ServeHTTP", err |-> ""]

\* errorHandler.ServerErrorHandler(w, r, e) followed by return.
Fail(r, e) == [r EXCEPT !.calls = Append(@, ErrorCall(e)), !.pc = "done"]

-----------------------------------------------------------------------------
(* Inbound requests                                                        *)

\* A request body with what it is: label and want describe the input and
\* are not read by the program.
FieldBody(t) ==
    [bytes |-> <<LBrace, StrTok(URLField), Colon, StrTok(t), RBrace>>,
     fail |-> FALSE, label |-> "field", want |-> t]

\* {"proxyURL":"s://a"  without the closing brace
TruncatedBody ==
    [bytes |-> <<LBrace, StrTok(URLField), Colon, StrTok(TargetA)>>,
     fail |-> FALSE, label |-> "truncated", want |-> Str0]

\* {}
EmptyObjectBody ==
    [bytes |-> <<LBrace, RBrace>>, fail |-> FALSE, label |-> "absent", want |-> Str0]

\* {"x":"t://b"}: only an unrecognised field
OtherFieldBody ==
    [bytes |-> <<LBrace, StrTok(<<"x">>), Colon, StrTok(TargetB), RBrace>>,
     fail |-> FALSE, label |-> "absent", want |-> Str0]

\* A body whose reader returns an error
UnreadableBody ==
    [bytes |-> <<LBrace, RBrace>>, fail |-> TRUE, label |-> "unreadable", want |-> Str0]

\* http.NoBody, the body of a request sent without one
NoBody == [bytes |-> <<>>, fail |-> FALSE, label |-> "none", want |-> Str0]

Bodies ==
    {FieldBody(t) : t \in Targets}
        \cup {TruncatedBody, EmptyObjectBody, OtherFieldBody, UnreadableBody}

\* The path argument of PathRequestProxyHandler
Prefixes == {Str0, <<"/", "f">>}

\* r.URL.Path of the inbound request
Paths == {<<"/", "f", "/", "f", "/", "a">>, <<"/", "a", "/", "f">>}

\* r.Header["Host"] of the inbound request: absent, or one value
HostHeaders == {<<>>, <<<<"c">>>>}

\* r.Host of the inbound request
InboundHost == <<"e">>

\* The request as the server hands it to a handler.
Inbound(path, hostHeader, body) ==
    [Path |-> path, URLHost |-> Str0, URLScheme |-> Str0, Host |-> InboundHost,
     Header |-> [k \in HeaderKeys |-> IF k = "Host" THEN hostHeader ELSE <<>>],
     bytes |-> body.bytes, label |-> body.label, want |-> body.want]

\* A goroutine that serves no request
Idle ==
    [pc |-> "idle", handler |-> "none", prefix |-> Str0,
     Path |-> Str0, URLHost |-> Str0, URLScheme |-> Str0, Host |-> Str0,
     Header |-> [k \in HeaderKeys |-> <<>>],
     Body |-> NewBuffer(<<>>),
     in |-> Inbound(Str0, <<>>, NoBody),
     pend |-> <<>>, word |-> "", derr |-> "",
     target |-> Str0, calls |-> <<>>]

\* The state of a goroutine entering a handler; in keeps the inbound request.
NewRequest(handler, prefix, path, hostHeader, body) ==
    LET i == Inbound(path, hostHeader, body) IN
    [Idle EXCEPT !.pc = "entry", !.handler = handler, !.prefix = prefix,
                 !.Path = i.Path, !.Host = i.Host, !.Header = i.Header,
                 !.Body = [data |-> body.bytes, off |-> 0, fail |-> body.fail],
                 !.in = i]

-----------------------------------------------------------------------------
(* The handlers and the forwarder, as steps on one request                 *)

\* A PathRequestProxyHandler that trims the path before testing the target.
PathRequestProxyHandler_trimFirst(r, u) ==
    LET t == [r EXCEPT !.Path = TrimPrefix(@, r.prefix)] IN
    IF u = Str0 THEN Fail(t, ErrPathUnset) ELSE [t EXCEPT !.pc = "serve"]

\* PathRequestProxyHandler up to its call of serveReverseProxy, with u the
\* result of p.proxy.GetProxyURL()
PathRequestProxyHandler(r, u) ==
    IF u = Str0
    THEN Fail(r, ErrPathUnset)
    ELSE [r EXCEPT !.Path = TrimPrefix(@, r.prefix), !.pc = "serve"]

\* A decodeURLFromBody that leaves r.Body as ReadAll left it.
decodeURLFromBody_noReset(r) ==
    LET rd == ReadAll(r.Body)
        u == jsonUnmarshal(rd.bytes)
    IN IF rd.err
       THEN [r EXCEPT !.Body = rd.body, !.derr = ErrRead]
       ELSE [r EXCEPT !.Body = rd.body, !.pend = u.stores, !.derr = u.err]

\* A decodeURLFromBody that returns nil whatever json.Unmarshal returned.
decodeURLFromBody_nilError(r) ==
    LET rd == ReadAll(r.Body)
        u == jsonUnmarshal(rd.bytes)
    IN IF rd.err
       THEN [r EXCEPT !.Body = rd.body, !.derr = ErrRead]
       ELSE [r EXCEPT !.Body = NewBuffer(rd.bytes), !.pend = u.stores]

\* decodeURLFromBody without the stores of json.Unmarshal, which the
\* instance performs word by word: the request with its body replaced, the
\* strings to store in rp.URL (pend) and the error it will return (derr).
decodeURLFromBody(r) ==
    LET rd == ReadAll(r.Body)
        u == jsonUnmarshal(rd.bytes)
    IN IF rd.err
       THEN [r EXCEPT !.Body = rd.body, !.derr = ErrRead]
       ELSE [r EXCEPT !.Body = NewBuffer(rd.bytes), !.pend = u.stores, !.derr = u.err]

\* PayloadRequestProxyHandler once decodeURLFromBody has returned r.derr
PayloadDecoded(r) ==
    IF r.derr # "" THEN Fail(r, r.derr) ELSE [r EXCEPT !.pc = "check"]

\* A PayloadCheck without the return after the error call.
PayloadCheck_noReturn(r, u) ==
    IF u = Str0
    THEN [r EXCEPT !.calls = Append(@, ErrorCall(ErrBodyUnset)), !.pc = "serve"]
    ELSE [r EXCEPT !.pc = "serve"]

\* PayloadRequestProxyHandler's test of p.proxy.GetProxyURL(), which gave u
PayloadCheck(r, u) ==
    IF u = Str0 THEN Fail(r, ErrBodyUnset) ELSE [r EXCEPT !.pc = "serve"]

\* A Rewrite that overwrites r.Host first and copies it into the header.
Rewrite_hostFirst(r, url) ==
    LET r1 == [r EXCEPT !.URLHost = url.Host]
        r2 == [r1 EXCEPT !.URLScheme = url.Scheme]
        r3 == [r2 EXCEPT !.Host = url.Host]
    IN [r3 EXCEPT !.Header = HeaderSet(@, "X-Forwarded-Host", r3.Host)]

\* The four assignments of serveReverseProxy, in the order of the code
Rewrite(r, url) ==
    LET r1 == [r EXCEPT !.URLHost = url.Host]
        r2 == [r1 EXCEPT !.URLScheme = url.Scheme]
        r3 == [r2 EXCEPT !.Header =
                   HeaderSet(@, "X-Forwarded-Host", HeaderGet(r2.Header, "Host"))]
    IN [r3 EXCEPT !.Host = url.Host]

\* A serveReverseProxy that sets the forwarded-host header before it looks
\* at the error of url.Parse.
serveReverseProxy_rewriteFirst(r, u) ==
    LET url == urlParse(u)
        s == [r EXCEPT !.target = u, !.calls = Append(@, ForwarderCall)]
        m == [s EXCEPT !.Header =
                  HeaderSet(@, "X-Forwarded-Host", HeaderGet(s.Header, "Host"))]
    IN IF url.err
       THEN Fail(m, ErrParse)
       ELSE [Rewrite(s, url) EXCEPT !.calls = Append(@, PrimitiveCall),
                                    !.pc = "done"]

\* serveReverseProxy, with u the result of rp.GetProxyURL()
serveReverseProxy(r, u) ==
    LET url == urlParse(u)
        s == [r EXCEPT !.target = u, !.calls = Append(@, ForwarderCall)]
    IN IF url.err
       THEN Fail(s, ErrParse)
       ELSE [Rewrite(s, url) EXCEPT !.calls = Append(@, PrimitiveCall),
                                    !.pc = "done"]

-----------------------------------------------------------------------------
(* The instance: goroutines interleave at their accesses to rp.URL         *)

\* New(URL): any target, the empty one included; no request in flight.
Init ==
    /\ rpURL \in {StringOf(t) : t \in Targets}
    /\ req = [i \in Requests |-> Idle]

\* A request arrives at a handler made by PathRequestProxyHandler(prefix, _)
\* and runs up to its call of serveReverseProxy.
PathRequest(i, prefixes, paths, hostHeaders) ==
    /\ req[i].pc = "idle"
    /\ \E prefix \in prefixes, path \in paths, hh \in hostHeaders,
          u \in GetProxyURL(rpURL) :
          req' = [req EXCEPT ![i] = PathRequestProxyHandler(
                      NewRequest("path", prefix, path, hh, NoBody), u)]
    /\ UNCHANGED rpURL

\* A request arrives at a handler made by PayloadRequestProxyHandler and
\* runs decodeURLFromBody up to the first store into rp.URL, or through the
\* error return when there is nothing to store.
PayloadRequest(i, bodies, hostHeaders) ==
    /\ req[i].pc = "idle"
    /\ \E body \in bodies, hh \in hostHeaders :
          LET r == decodeURLFromBody(
                       NewRequest("payload", Str0, <<"/", "a">>, hh, body))
          IN req' = [req EXCEPT ![i] =
                        IF r.pend = <<>> THEN PayloadDecoded(r)
                        ELSE [r EXCEPT !.pc = "store"]]
    /\ UNCHANGED rpURL

\* json.Unmarshal assigns rp.URL: two word stores with no lock, in the
\* order the build chose.  After the second one decodeURLFromBody goes on
\* to the next field to store, or returns.
SetString(i) ==
    LET r == req[i] IN
    /\ r.pc = "store"
    /\ \E w \in (IF r.word = "" THEN {"data", "len"} ELSE {r.word}) :
          /\ rpURL' = IF w = "data"
                      THEN [rpURL EXCEPT !.data = Head(r.pend)]
                      ELSE [rpURL EXCEPT !.len = Len(Head(r.pend))]
          /\ req' = [req EXCEPT ![i] =
                        IF r.word = ""
                        THEN [r EXCEPT !.word = IF w = "data" THEN "len" ELSE "data"]
                        ELSE LET n == [r EXCEPT !.pend = Tail(@), !.word = ""]
                             IN IF n.pend = <<>> THEN PayloadDecoded(n) ELSE n]

\* PayloadRequestProxyHandler reads the target back and tests it.
CheckTarget(i) ==
    /\ req[i].pc = "check"
    /\ \E u \in GetProxyURL(rpURL) :
          req' = [req EXCEPT ![i] = PayloadCheck(req[i], u)]
    /\ UNCHANGED rpURL

\* serveReverseProxy reads the target, parses it and forwards or fails.
Forward(i) ==
    /\ req[i].pc = "serve"
    /\ \E u \in GetProxyURL(rpURL) :
          req' = [req EXCEPT ![i] = serveReverseProxy(req[i], u)]
    /\ UNCHANGED rpURL

\* The handler has returned; the goroutine takes the next request.
Return(i) ==
    /\ req[i].pc = "done"
    /\ req' = [req EXCEPT ![i] = Idle]
    /\ UNCHANGED rpURL

\* Requests served at the same time.  What varies is what the goroutines
\* race on: the handler, and the target a body names or fails to name.
RacingBodies ==
    {FieldBody(t) : t \in Targets} \cup {TruncatedBody, EmptyObjectBody}

Next ==
    \E i \in Requests :
        \/ PathRequest(i, {<<"/", "f">>}, {<<"/", "f", "/", "f", "/", "a">>},
                       {<<<<"c">>>>})
        \/ PayloadRequest(i, RacingBodies, {<<<<"c">>>>})
        \/ SetString(i)
        \/ CheckTarget(i)
        \/ Forward(i)
        \/ Return(i)

Spec == Init /\ [][Next]_vars

\* One request at a time, over every prefix, path, Host header and body.
NextAlone ==
    \/ PathRequest(1, Prefixes, Paths, HostHeaders)
    \/ PayloadRequest(1, Bodies, HostHeaders)
    \/ SetString(1)
    \/ CheckTarget(1)
    \/ Forward(1)
    \/ Return(1)

SpecAlone == Init /\ [][NextAlone]_vars

-----------------------------------------------------------------------------
(* What a request's record says about its run                              *)

ErrorCalls(r) ==
    Cardinality({k \in 1..Len(r.calls) : r.calls[k].fn = "ServerErrorHandler"})

PrimitiveCalls(r) ==
    Cardinality({k \in 1..Len(r.calls) : r.calls[k] = PrimitiveCall})

\* serveReverseProxy was entered: it has read the target it forwards to.
Served(r) == \E k \in 1..Len(r.calls) : r.calls[k] = ForwarderCall

\* The request was handed to the reverse-proxy primitive.
Forwarded(r) == PrimitiveCalls(r) > 0

\* Every load of the stored target yields the empty string.
StoredEmpty == GetProxyURL(rpURL) = {Str0}

-----------------------------------------------------------------------------
(* Claims                                                                  *)

\* C1: a payload-mode request whose body names a non-empty target T and
\* that reaches the forwarder is forwarded to T: the string serveReverseProxy
\* reads for it is T, whatever other requests are served at the same time.
C1_ForwardedToNamedTarget ==
    \A i \in Requests :
        (/\ req[i].handler = "payload"
         /\ req[i].in.label = "field"
         /\ req[i].in.want # Str0
         /\ Served(req[i]))
            => req[i].target = req[i].in.want

\* C2: a payload-mode request whose body is valid JSON without the proxyURL
\* field ends with the error collaborator called with the unconfigured
\* target error and the forwarder not called, whatever the instance held.
C2_AbsentFieldIsConfigError ==
    \A i \in Requests :
        (/\ req[i].handler = "payload"
         /\ req[i].in.label = "absent"
         /\ req[i].pc = "done")
            => req[i].calls = <<ErrorCall(ErrBodyUnset)>>

\* C3: when the path-mode handler is invoked while the stored target is the
\* empty string, the handler returns having called the error collaborator
\* exactly once, the forwarder not at all, and with the path untrimmed.
C3_PathHandlerUnset ==
    [][\A i \in Requests :
          (/\ req[i].pc = "idle"
           /\ req'[i].handler = "path"
           /\ StoredEmpty)
              => /\ req'[i].pc = "done"
                 /\ req'[i].calls = <<ErrorCall(ErrPathUnset)>>
                 /\ req'[i].Path = req'[i].in.Path]_vars

\* A path-mode request was refused for an unset target, its path still
\* starting with the prefix the handler would have trimmed.
C3_Witness ==
    \E i \in Requests :
        /\ req[i].handler = "path"
        /\ req[i].calls = <<ErrorCall(ErrPathUnset)>>
        /\ req[i].prefix # Str0
        /\ HasPrefix(req[i].Path, req[i].prefix)

\* C4: a payload-mode request whose body is not valid JSON ends at once with
\* the error collaborator called exactly once, with the parse error, and
\* the forwarder never called, whatever target was stored.
C4_InvalidJSONStops ==
    \A i \in Requests :
        (/\ req[i].handler = "payload"
         /\ req[i].in.label = "truncated")
            => /\ req[i].pc = "done"
               /\ req[i].calls = <<ErrorCall("json: syntax")>>

\* A truncated body was refused while a non-empty target was stored.
C4_Witness ==
    \E i \in Requests :
        /\ req[i].handler = "payload"
        /\ req[i].in.label = "truncated"
        /\ req[i].pc = "done"
        /\ rpURL = StringOf(TargetA)

\* C5: the path-mode handler hands the forwarder the request path X with
\* exactly one leading occurrence of the prefix P removed when X starts
\* with P (P followed by the forwarded path is X), and X itself otherwise.
C5_TrimsOnePrefix ==
    \A i \in Requests :
        (/\ req[i].handler = "path"
         /\ (req[i].pc = "serve" \/ Served(req[i])))
            => IF HasPrefix(req[i].in.Path, req[i].prefix)
               THEN req[i].prefix \o req[i].Path = req[i].in.Path
               ELSE req[i].Path = req[i].in.Path

\* The forwarder was called with a path that lost one occurrence of the
\* prefix and still starts with the second one.
C5_Witness ==
    \E i \in Requests :
        /\ req[i].handler = "path"
        /\ Served(req[i])
        /\ req[i].prefix # Str0
        /\ req[i].prefix \o req[i].Path = req[i].in.Path
        /\ HasPrefix(req[i].Path, req[i].prefix)

\* C6: for every request, the error collaborator is called at most once and
\* never after the request was handed to the reverse-proxy primitive, and a
\* finished request had exactly one of the two: one error call, or one
\* delegation to the primitive.
C6_OneOutcome ==
    \A i \in Requests :
        LET r == req[i] IN
        /\ ErrorCalls(r) <= 1
        /\ PrimitiveCalls(r) <= 1
        /\ \A j, k \in 1..Len(r.calls) :
              (j < k /\ r.calls[j] = PrimitiveCall)
                  => r.calls[k].fn # "ServerErrorHandler"
        /\ r.pc = "done" =>
              \/ ErrorCalls(r) = 1 /\ PrimitiveCalls(r) = 0
              \/ ErrorCalls(r) = 0 /\ PrimitiveCalls(r) = 1

\* Two finished requests, one of each outcome; the failed one got through
\* the handler's own check and failed in the forwarder.
C6_Witness ==
    \E i, j \in Requests :
        /\ req[i].pc = "done" /\ req[j].pc = "done"
        /\ req[i].handler = "payload"
        /\ req[i].calls = <<ForwarderCall, ErrorCall(ErrParse)>>
        /\ req[j].calls = <<ForwarderCall, PrimitiveCall>>

\* C7: once decodeURLFromBody has read the body, reading the request body
\* to its end gives the bytes of the original body, both when the JSON
\* parse succeeded and when it failed.
C7_BodyReadableAgain ==
    \A i \in Requests :
        (req[i].handler = "payload" /\ req[i].in.label # "unreadable")
            => /\ ~ReadAll(req[i].Body).err
               /\ ReadAll(req[i].Body).bytes = req[i].in.bytes

\* Two payload requests past decodeURLFromBody, one body parsed and one
\* refused, both non-empty and both readable again.
C7_Witness ==
    \E i, j \in Requests :
        /\ req[i].in.label = "field" /\ Served(req[i])
        /\ req[j].in.label = "truncated" /\ req[j].pc = "done"
        /\ ReadAll(req[i].Body).bytes = FieldBody(req[i].in.want).bytes
        /\ ReadAll(req[j].Body).bytes = TruncatedBody.bytes

\* C8: a request handed to the primitive has the URL scheme and URL host of
\* the target the forwarder parsed, that host as its Host field, and an
\* X-Forwarded-Host header equal to the inbound Host header value (empty
\* when the inbound request had none), not to the rewritten Host field.
C8_RewrittenForTarget ==
    \A i \in Requests :
        Forwarded(req[i]) =>
            LET u == urlParse(req[i].target) IN
            /\ ~u.err
            /\ req[i].URLScheme = u.Scheme
            /\ req[i].URLHost = u.Host
            /\ req[i].Host = u.Host
            /\ req[i].Header["X-Forwarded-Host"]
                   = <<HeaderGet(req[i].in.Header, "Host")>>

\* A request forwarded to s://a that came with the Host header c.
C8_Witness ==
    \E i \in Requests :
        /\ Forwarded(req[i])
        /\ req[i].target = TargetA
        /\ req[i].URLScheme = <<"s">>
        /\ req[i].URLHost = <<"a">>
        /\ req[i].Host = <<"a">>
        /\ req[i].in.Header["Host"] = <<<<"c">>>>
        /\ req[i].Header["X-Forwarded-Host"] = <<<<"c">>>>

\* C9: the reverse-proxy primitive is never called for a request whose
\* target, as serveReverseProxy read it, is the empty string.
C9_NeverForwardedToEmpty ==
    \A i \in Requests : Forwarded(req[i]) => req[i].target # Str0

\* C10: when the target the forwarder read fails URL parsing, the forwarder
\* calls the error collaborator exactly once and not the primitive, and the
\* request's URL scheme, URL host, Host field and headers are as inbound
\* (the handlers do not touch them before the forwarder).
C10_ParseFailureFrame ==
    \A i \in Requests :
        (Served(req[i]) /\ urlParse(req[i].target).err)
            => /\ req[i].pc = "done"
               /\ ErrorCalls(req[i]) = 1
               /\ req[i].calls[Len(req[i].calls)] = ErrorCall(ErrParse)
               /\ ~Forwarded(req[i])
               /\ req[i].URLScheme = req[i].in.URLScheme
               /\ req[i].URLHost = req[i].in.URLHost
               /\ req[i].Host = req[i].in.Host
               /\ req[i].Header = req[i].in.Header

\* The forwarder refused the unparsable target of a request that came with
\* a Host header.
C10_Witness ==
    \E i \in Requests :
        /\ Served(req[i])
        /\ req[i].target = TargetBad
        /\ req[i].calls[Len(req[i].calls)] = ErrorCall(ErrParse)
        /\ req[i].in.Header["Host"] # <<>>

====
